---- MODULE Spec2Model ----
(***************************************************************************)
(* One page load of the JSON/CSS module demos.  A page loads busyWork.js   *)
(* and then one element-defining module; the page script afterwards        *)
(* constructs custom element instances and inserts them in the document.   *)
(* The host's module loader, network and promise machinery are modelled    *)
(* as the README describes them; the module bodies and the constructors    *)
(* are the statements of the JavaScript files.                              *)
(***************************************************************************)
EXTENDS Integers, Sequences, FiniteSets, TLC

VARIABLES
    module,             \* the element-defining module this page loads
    phase,              \* module loader: "init", "fetching", "evaluating", "done", "failed"
    resource,           \* url -> [status, body, requestedAt]
    trace,              \* log of network requests and module evaluations, in order
    now,                \* page clock
    sheets,             \* the CSSStyleSheet objects script can reach; a sheet's id is its index
    sheet,              \* module-level `sheet` binding of a CSS module importer (0: unbound)
    displayTextConfig,  \* module-level `displayTextConfig` binding of the JSON module importer
    configPromise,      \* module-level `configPromise` binding of fetcherElement.js
    promise,            \* the promise configPromise refers to: [state, value]
    defined,            \* element classes declared by evaluated modules
    instances,          \* the element instances, in order of construction
    firstInsertAt,      \* class -> clock value at the first insertion of an instance of it (-1: none yet)
    console             \* uncaught errors reported by the host

vars == <<module, phase, resource, trace, now, sheets, sheet, displayTextConfig,
          configPromise, promise, defined, instances, firstInsertAt, console>>

----------------------------------------------------------------------------
(* Bounds *)

MaxInstances == 2
MaxTime == 2

----------------------------------------------------------------------------
(* The files *)

BusyWork == "busyWork.js"
CssModule1 == "demo1/cssModuleElement.js"
CssModule2 == "demo2/cssModuleElement.js"
CssModuleCat == "demo2/cssModuleCatElement.js"
CssModule0 == "unnamed/part_000"
LinkModule1 == "unnamed/part_001"
LinkInShadow == "demo1/linkInShadowElement.js"
Fetcher == "demo1/fetcherElement.js"

ElementModules ==
    {CssModule1, CssModule2, CssModuleCat, CssModule0, LinkModule1, LinkInShadow, Fetcher}

StylesCss == "styles.css"
LinkTestCss == "linkTest.css"
BigStylesCss == "big_styles.css"
DisplayTextJson == "displayText.json"

Urls == {StylesCss, LinkTestCss, BigStylesCss, DisplayTextJson}

IsCss(url) == url \in {StylesCss, LinkTestCss, BigStylesCss}

\* The import declarations of a module: resolved while the graph is processed.
StaticImportsNone(m) == {}
StaticImports(m) ==
    CASE m = CssModule1 -> {StylesCss}
      [] m = CssModule2 -> {LinkTestCss}
      [] m = CssModuleCat -> {BigStylesCss}
      [] m = CssModule0 -> {StylesCss}
      [] m = LinkInShadow -> {DisplayTextJson}
      [] OTHER -> {}

\* The fetch() calls a module body makes while it is evaluated.
BodyFetches(m) == IF m = Fetcher THEN <<DisplayTextJson>> ELSE <<>>

AllClasses ==
    {"CSSModuleTestElement", "CSSModuleCatElement", "LinkTestElement",
     "JSONModuleTestElement", "StyleTestElement", "FetchTestElement"}

\* The classes a module body declares.
Classes(m) ==
    CASE m \in {CssModule1, CssModule2, CssModule0} -> {"CSSModuleTestElement"}
      [] m = CssModuleCat -> {"CSSModuleCatElement"}
      [] m = LinkModule1 -> {"LinkTestElement"}
      [] m = LinkInShadow -> {"LinkTestElement", "JSONModuleTestElement", "StyleTestElement"}
      [] m = Fetcher -> {"FetchTestElement"}
      [] OTHER -> {}

\* Execution order of the module graph: busyWork.js precedes the element module.
EvalOrderElementFirst(m) == <<m, BusyWork>>
EvalOrder(m) == <<BusyWork, m>>

----------------------------------------------------------------------------
(* JSON texts and JSON.parse *)

ValidJson == <<"{", "displayText", ":", "Hello", "}">>
NoKeyJson == <<"{", "}">>
MalformedJson == <<"{", "displayText", ":">>

JsonBodies == {ValidJson, NoKeyJson, MalformedJson}

Punct == {"{", "}", ":", ","}
EmptyObject == [k \in {} |-> ""]
ParseError == [ok |-> FALSE, obj |-> EmptyObject]

RECURSIVE ParseMembers(_, _)
ParseMembers(toks, acc) ==
    IF Len(toks) < 3 THEN ParseError
    ELSE IF toks[1] \in Punct \/ toks[2] # ":" \/ toks[3] \in Punct THEN ParseError
    ELSE LET obj == (toks[1] :> toks[3]) @@ acc
         IN  IF Len(toks) = 3 THEN [ok |-> TRUE, obj |-> obj]
             ELSE IF toks[4] = "," THEN ParseMembers(SubSeq(toks, 5, Len(toks)), obj)
             ELSE ParseError

JSONParse(text) ==
    IF Len(text) < 2 \/ text[1] # "{" \/ text[Len(text)] # "}" THEN ParseError
    ELSE IF Len(text) = 2 THEN [ok |-> TRUE, obj |-> EmptyObject]
    ELSE ParseMembers(SubSeq(text, 2, Len(text) - 1), EmptyObject)

\* obj.key converted to a string: a missing property reads as undefined.
Prop(obj, key) == IF key \in DOMAIN obj THEN obj[key] ELSE "undefined"

CssText(url) == <<"rules of", url>>
InlineRules == <<"inline rules">>

Bodies(url) == IF IsCss(url) THEN {CssText(url)} ELSE JsonBodies

----------------------------------------------------------------------------
(* Shadow tree content: the elements innerHTML parses to, in document order *)

El(tag, classes, text, href, parent) ==
    [tag |-> tag, classes |-> classes, text |-> text, href |-> href, parent |-> parent]

StyledText == "This text should be styled"

TemplateNoStyleElement(m, c, displayText) ==
    CASE m = CssModule1 ->
            <<El("div", {"outer-container", "text-container"}, StyledText, "", 0)>>
      [] m = CssModule2 ->
            <<El("div", {"outer-container"}, "", "", 0),
              El("div", {"text-container"}, StyledText, "", 1),
              El("div", {"cat-container"}, "", "", 1)>>
      [] m = CssModuleCat ->
            <<El("div", {"cat10"}, "", "", 0)>>
      [] m = CssModule0 ->
            <<El("div", {"outer-container"}, "", "", 0),
              El("div", {"text-container"}, StyledText, "", 1)>>
      [] m = LinkModule1 ->
            <<El("div", {"outer-container"}, "", "", 0),
              El("div", {"text-container"}, StyledText, "", 1),
              El("div", {"cat-container"}, "", "", 1)>>
      [] m = LinkInShadow /\ c = "LinkTestElement" ->
            <<El("div", {"outer-container", "text-container"}, StyledText, "", 0)>>
      [] m = LinkInShadow /\ c = "JSONModuleTestElement" ->
            <<El("div", {"outer-container"}, "", "", 0),
              El("div", {"text-container"}, displayText, "", 1)>>
      [] m = LinkInShadow /\ c = "StyleTestElement" ->
            <<El("div", {"outer-container", "text-container"}, StyledText, "", 0)>>
      [] m = Fetcher ->
            <<El("div", {"outer-container"}, "", "", 0),
              El("div", {"text-container"}, "", "", 1)>>
      [] OTHER -> <<>>
Template(m, c, displayText) ==
    CASE m = CssModule1 ->
            <<El("div", {"outer-container", "text-container"}, StyledText, "", 0)>>
      [] m = CssModule2 ->
            <<El("div", {"outer-container"}, "", "", 0),
              El("div", {"text-container"}, StyledText, "", 1),
              El("div", {"cat-container"}, "", "", 1)>>
      [] m = CssModuleCat ->
            <<El("div", {"cat10"}, "", "", 0)>>
      [] m = CssModule0 ->
            <<El("div", {"outer-container"}, "", "", 0),
              El("div", {"text-container"}, StyledText, "", 1)>>
      [] m = LinkModule1 ->
            <<El("link", {}, "", LinkTestCss, 0),
              El("div", {"outer-container"}, "", "", 0),
              El("div", {"text-container"}, StyledText, "", 2),
              El("div", {"cat-container"}, "", "", 2)>>
      [] m = LinkInShadow /\ c = "LinkTestElement" ->
            <<El("link", {}, "", StylesCss, 0),
              El("div", {"outer-container", "text-container"}, StyledText, "", 0)>>
      [] m = LinkInShadow /\ c = "JSONModuleTestElement" ->
            <<El("div", {"outer-container"}, "", "", 0),
              El("div", {"text-container"}, displayText, "", 1)>>
      [] m = LinkInShadow /\ c = "StyleTestElement" ->
            <<El("style", {}, "inline rules", "", 0),
              El("div", {"outer-container", "text-container"}, StyledText, "", 0)>>
      [] m = Fetcher ->
            <<El("div", {"outer-container"}, "", "", 0),
              El("div", {"text-container"}, "", "", 1)>>
      [] OTHER -> <<>>

----------------------------------------------------------------------------
(* Constructors: the statements of each class's constructor, in order *)

Stmt(op, arg) == [op |-> op, arg |-> arg]

\* Which way a class styles its shadow tree.
Variant(m, c) ==
    CASE m \in {CssModule1, CssModule2, CssModuleCat, CssModule0} -> "cssModule"
      [] m = LinkModule1 -> "markup"
      [] m = LinkInShadow /\ c \in {"LinkTestElement", "StyleTestElement"} -> "markup"
      [] m = LinkInShadow /\ c = "JSONModuleTestElement" -> "constructed"
      [] m = Fetcher -> "constructedThen"
      [] OTHER -> "none"

AdoptImported == <<Stmt("attachShadow", ""), Stmt("adopt", "sheet"), Stmt("innerHTML", "")>>
MarkupOnly == <<Stmt("attachShadow", ""), Stmt("innerHTML", "")>>
AdoptConstructed ==
    <<Stmt("attachShadow", ""), Stmt("newSheet", ""), Stmt("adopt", "local"), Stmt("innerHTML", "")>>
AdoptConstructedThen == AdoptConstructed \o <<Stmt("then", "")>>

\* The stylesheet a <link> variant's markup refers to.
LinkedStylesheet(m) == IF m = LinkModule1 THEN LinkTestCss ELSE StylesCss

ConstructorBodyOwnSheet(m, c) ==
    CASE Variant(m, c) = "cssModule" -> AdoptConstructed
      [] Variant(m, c) = "markup" -> MarkupOnly
      [] Variant(m, c) = "constructed" -> AdoptConstructed
      [] Variant(m, c) = "constructedThen" -> AdoptConstructedThen
      [] OTHER -> <<>>
ConstructorBodyPrefetch(m, c) ==
    CASE Variant(m, c) = "cssModule" -> AdoptImported
      [] Variant(m, c) = "markup" -> MarkupOnly \o <<Stmt("fetch", LinkedStylesheet(m))>>
      [] Variant(m, c) = "constructed" -> AdoptConstructed
      [] Variant(m, c) = "constructedThen" -> AdoptConstructedThen
      [] OTHER -> <<>>
ConstructorBodyFetchEach(m, c) ==
    CASE Variant(m, c) = "cssModule" -> AdoptImported
      [] Variant(m, c) = "markup" -> MarkupOnly
      [] Variant(m, c) = "constructed" -> AdoptConstructed
      [] Variant(m, c) = "constructedThen" ->
            <<Stmt("fetch", DisplayTextJson)>> \o AdoptConstructedThen
      [] OTHER -> <<>>
ConstructorBodyHtmlFirst(m, c) ==
    CASE Variant(m, c) = "cssModule" ->
            <<Stmt("attachShadow", ""), Stmt("innerHTML", ""), Stmt("adopt", "sheet")>>
      [] Variant(m, c) = "markup" -> MarkupOnly
      [] Variant(m, c) = "constructed" -> AdoptConstructed
      [] Variant(m, c) = "constructedThen" -> AdoptConstructedThen
      [] OTHER -> <<>>
ConstructorBody(m, c) ==
    CASE Variant(m, c) = "cssModule" -> AdoptImported
      [] Variant(m, c) = "markup" -> MarkupOnly
      [] Variant(m, c) = "constructed" -> AdoptConstructed
      [] Variant(m, c) = "constructedThen" -> AdoptConstructedThen
      [] OTHER -> <<>>

\* The element as super() leaves it.
NewElement(c) ==
    [class |-> c, shadow |-> FALSE, adoptedStyleSheets |-> <<>>, content |-> <<>>,
     local |-> 0, thenRegistered |-> FALSE, callbackRan |-> FALSE,
     ops |-> <<>>, threw |-> FALSE, inserted |-> FALSE]

\* One constructor statement, on the execution state [inst, sheets, requests].
\* A statement that throws ends the constructor: the later ones do nothing.
ExecStmt(st, s, m, env) ==
    LET e == s.inst
        done(e2) == [s EXCEPT !.inst = [e2 EXCEPT !.ops = Append(e.ops, st.op)]]
        throw == [s EXCEPT !.inst.threw = TRUE]
    IN  IF e.threw THEN s
        ELSE CASE st.op = "attachShadow" ->
                    IF e.shadow THEN throw ELSE done([e EXCEPT !.shadow = TRUE])
               [] st.op = "newSheet" ->
                    [done([e EXCEPT !.local = Len(s.sheets) + 1]) EXCEPT
                        !.sheets = Append(s.sheets, [rules |-> InlineRules, origin |-> "constructed"])]
               [] st.op = "adopt" ->
                    IF ~e.shadow THEN throw
                    ELSE done([e EXCEPT !.adoptedStyleSheets =
                                  <<IF st.arg = "local" THEN e.local ELSE env.sheet>>])
               [] st.op = "innerHTML" ->
                    IF ~e.shadow THEN throw
                    ELSE done([e EXCEPT !.content =
                                  Template(m, e.class, Prop(env.displayTextConfig, "displayText"))])
               [] st.op = "then" ->
                    done([e EXCEPT !.thenRegistered = TRUE])
               [] st.op = "fetch" ->
                    [done(e) EXCEPT !.requests = Append(s.requests, st.arg)]
               [] OTHER -> s

RECURSIVE ExecBody(_, _, _, _)
ExecBody(body, s, m, env) ==
    IF body = <<>> THEN s
    ELSE ExecBody(Tail(body), ExecStmt(Head(body), s, m, env), m, env)

----------------------------------------------------------------------------
(* Network requests *)

Event(ev, what) == [ev |-> ev, what |-> what]

\* Start a fetch of each url in turn; net is [resource, trace].  A url already
\* requested is served by the cache entry of the first request.
RECURSIVE IssueRequests(_, _, _)
IssueRequests(urls, net, t) ==
    IF urls = <<>> THEN net
    ELSE LET u == Head(urls)
             r == net.resource[u]
         IN  IssueRequests(Tail(urls),
                 [resource |-> [net.resource EXCEPT ![u] =
                                   IF r.status = "unrequested"
                                   THEN [r EXCEPT !.status = "requested", !.requestedAt = t]
                                   ELSE r],
                  trace |-> Append(net.trace, Event("request", u))],
                 t)

RECURSIVE SetToSeq(_)
SetToSeq(S) == IF S = {} THEN <<>> ELSE LET x == CHOOSE y \in S : TRUE
                                        IN  <<x>> \o SetToSeq(S \ {x})

\* The hrefs of the <link> elements of a shadow tree, in document order.
RECURSIVE LinkHrefs(_)
LinkHrefs(content) ==
    IF content = <<>> THEN <<>>
    ELSE (IF Head(content).tag = "link" THEN <<Head(content).href>> ELSE <<>>)
         \o LinkHrefs(Tail(content))

RequestCount(url) == Cardinality({k \in DOMAIN trace : trace[k] = Event("request", url)})
EvaluatedCount == Cardinality({k \in DOMAIN trace : trace[k].ev = "end"})
Evaluated(m) == \E k \in DOMAIN trace : trace[k] = Event("end", m)

\* The CSSStyleSheet a CSS module import produced (0: none).
SheetOf(shs, url) ==
    IF \E i \in DOMAIN shs : shs[i].origin = url
    THEN CHOOSE i \in DOMAIN shs : shs[i].origin = url
    ELSE 0

CssImports(m) == {u \in StaticImports(m) : IsCss(u)}
JsonImports(m) == {u \in StaticImports(m) : ~IsCss(u)}

\* Every import of the graph loaded: only then is the graph linked and evaluated.
GraphLoadsAnyway(m, res) == TRUE
GraphLoads(m, res) == \A u \in StaticImports(m) : res[u].status = "loaded"

----------------------------------------------------------------------------
(* The fetch callback of FetchTestElement *)

\* querySelector: the first element of the shadow tree with the class (0: null).
QuerySelector(content, class) ==
    IF \E k \in DOMAIN content : class \in content[k].classes
    THEN CHOOSE k \in DOMAIN content :
            /\ class \in content[k].classes
            /\ \A j \in 1..(k - 1) : class \notin content[j].classes
    ELSE 0

\* configPromise.then((dataText) => {...}) of instance i, run on dataText.
\* JSON.parse throwing, or querySelector returning null, ends the callback.
ThenCallbackAll(insts, i, dataText) ==
    LET p == JSONParse(dataText)
    IN  [j \in DOMAIN insts |->
            LET k == QuerySelector(insts[j].content, "text-container")
            IN  IF p.ok /\ k # 0
                THEN [insts[j] EXCEPT !.content[k].text = Prop(p.obj, "displayText"),
                                      !.callbackRan = TRUE]
                ELSE [insts[j] EXCEPT !.callbackRan = TRUE]]
ThenCallbackFallback(insts, i, dataText) ==
    LET p == JSONParse(dataText)
        k == QuerySelector(insts[i].content, "text-container")
    IN  IF k = 0 THEN [insts EXCEPT ![i].callbackRan = TRUE]
        ELSE [insts EXCEPT ![i].content[k].text =
                               IF p.ok THEN Prop(p.obj, "displayText") ELSE "Loading failed",
                           ![i].callbackRan = TRUE]
ThenCallbackOuter(insts, i, dataText) ==
    LET p == JSONParse(dataText)
        k == QuerySelector(insts[i].content, "outer-container")
    IN  IF p.ok /\ k # 0
        THEN [insts EXCEPT ![i].content[k].text = Prop(p.obj, "displayText"),
                           ![i].callbackRan = TRUE]
        ELSE [insts EXCEPT ![i].callbackRan = TRUE]
ThenCallback(insts, i, dataText) ==
    LET p == JSONParse(dataText)
        k == QuerySelector(insts[i].content, "text-container")
    IN  IF p.ok /\ k # 0
        THEN [insts EXCEPT ![i].content[k].text = Prop(p.obj, "displayText"),
                           ![i].callbackRan = TRUE]
        ELSE [insts EXCEPT ![i].callbackRan = TRUE]

----------------------------------------------------------------------------
(* Initial state: a page about to load one of the element modules *)

Init ==
    /\ module \in ElementModules
    /\ phase = "init"
    /\ resource = [u \in Urls |-> [status |-> "unrequested", body |-> <<>>, requestedAt |-> -1]]
    /\ trace = <<>>
    /\ now = 0
    /\ sheets = <<>>
    /\ sheet = 0
    /\ displayTextConfig = EmptyObject
    /\ configPromise = 0
    /\ promise = [state |-> "none", value |-> <<>>]
    /\ defined = {}
    /\ instances = <<>>
    /\ firstInsertAt = [c \in AllClasses |-> -1]
    /\ console = {}

----------------------------------------------------------------------------
(* Module loader *)

\* The graph's modules are parsed: the fetch of every import declaration starts.
ParseGraph ==
    /\ phase = "init"
    /\ LET net == IssueRequests(SetToSeq(StaticImports(module)),
                                [resource |-> resource, trace |-> trace], now)
       IN  /\ resource' = net.resource
           /\ trace' = net.trace
    /\ phase' = "fetching"
    /\ UNCHANGED <<module, now, sheets, sheet, displayTextConfig, configPromise, promise,
                   defined, instances, firstInsertAt, console>>

\* A response, or a network error, arrives for a requested url.  An imported
\* CSS module is processed into its CSSStyleSheet here, once; an imported JSON
\* module that does not parse fails to load.
ResourceArrive(url, ok, body) ==
    /\ resource[url].status = "requested"
    /\ LET imported == phase = "fetching" /\ url \in StaticImports(module)
           loads == ok /\ (imported /\ ~IsCss(url) => JSONParse(body).ok)
       IN  /\ resource' = [resource EXCEPT ![url].status = IF loads THEN "loaded" ELSE "failed",
                                           ![url].body = IF ok THEN body ELSE <<>>]
           /\ sheets' = IF imported /\ IsCss(url) /\ loads
                        THEN Append(sheets, [rules |-> body, origin |-> url])
                        ELSE sheets
    /\ UNCHANGED <<module, phase, trace, now, sheet, displayTextConfig, configPromise, promise,
                   defined, instances, firstInsertAt, console>>

\* All imports have settled: the graph is linked, or the load fails for good.
LinkGraph ==
    /\ phase = "fetching"
    /\ \A u \in StaticImports(module) : resource[u].status \in {"loaded", "failed"}
    /\ phase' = IF GraphLoads(module, resource) THEN "evaluating" ELSE "failed"
    /\ console' = IF GraphLoads(module, resource) THEN console ELSE console \cup {"module load failed"}
    /\ UNCHANGED <<module, resource, trace, now, sheets, sheet, displayTextConfig,
                   configPromise, promise, defined, instances, firstInsertAt>>

\* The next module body of the graph runs to completion.
Evaluate ==
    /\ phase = "evaluating"
    /\ LET order == EvalOrder(module)
           m == order[EvaluatedCount + 1]
           net == IssueRequests(BodyFetches(m),
                                [resource |-> resource, trace |-> Append(trace, Event("begin", m))],
                                now)
       IN  /\ resource' = net.resource
           /\ trace' = Append(net.trace, Event("end", m))
           /\ sheet' = IF CssImports(m) # {}
                       THEN SheetOf(sheets, CHOOSE u \in CssImports(m) : TRUE)
                       ELSE sheet
           /\ displayTextConfig' =
                  IF JsonImports(m) # {}
                  THEN JSONParse(resource[CHOOSE u \in JsonImports(m) : TRUE].body).obj
                  ELSE displayTextConfig
           /\ configPromise' = IF BodyFetches(m) # <<>> THEN 1 ELSE configPromise
           /\ promise' = IF BodyFetches(m) # <<>>
                         THEN [state |-> "pending", value |-> <<>>]
                         ELSE promise
           /\ defined' = defined \cup Classes(m)
           /\ phase' = IF EvaluatedCount + 1 = Len(order) THEN "done" ELSE phase
    /\ UNCHANGED <<module, now, sheets, instances, firstInsertAt, console>>

\* fetch(...).then((dataResponse) => dataResponse.text()): configPromise settles
\* with the response text, or rejects with the network error.
SettleConfigPromise ==
    /\ configPromise = 1
    /\ promise.state = "pending"
    /\ resource[DisplayTextJson].status \in {"loaded", "failed"}
    /\ IF resource[DisplayTextJson].status = "loaded"
       THEN /\ promise' = [state |-> "fulfilled", value |-> resource[DisplayTextJson].body]
            /\ console' = console
       ELSE /\ promise' = [state |-> "rejected", value |-> <<>>]
            /\ console' = console \cup {"unhandled rejection"}
    /\ UNCHANGED <<module, phase, resource, trace, now, sheets, sheet, displayTextConfig,
                   configPromise, defined, instances, firstInsertAt>>

----------------------------------------------------------------------------
(* Page script *)

\* new c(): the constructor of class c runs.
Construct(c) ==
    /\ phase = "done"
    /\ c \in defined
    /\ Len(instances) < MaxInstances
    /\ LET s == ExecBody(ConstructorBody(module, c),
                         [inst |-> NewElement(c), sheets |-> sheets, requests |-> <<>>],
                         module,
                         [sheet |-> sheet, displayTextConfig |-> displayTextConfig])
           net == IssueRequests(s.requests, [resource |-> resource, trace |-> trace], now)
       IN  /\ instances' = Append(instances, s.inst)
           /\ sheets' = s.sheets
           /\ resource' = net.resource
           /\ trace' = net.trace
           /\ console' = IF s.inst.threw THEN console \cup {"constructor threw"} ELSE console
    /\ UNCHANGED <<module, phase, now, sheet, displayTextConfig, configPromise, promise,
                   defined, firstInsertAt>>

\* Instance i is inserted into the document: the <link> elements of its shadow
\* tree are processed and their stylesheets fetched.
Insert(i) ==
    /\ i \in DOMAIN instances
    /\ ~instances[i].inserted
    /\ instances' = [instances EXCEPT ![i].inserted = TRUE]
    /\ firstInsertAt' = [firstInsertAt EXCEPT ![instances[i].class] = IF @ = -1 THEN now ELSE @]
    /\ LET net == IssueRequests(LinkHrefs(instances[i].content),
                                [resource |-> resource, trace |-> trace], now)
       IN  /\ resource' = net.resource
           /\ trace' = net.trace
    /\ UNCHANGED <<module, phase, now, sheets, sheet, displayTextConfig, configPromise,
                   promise, defined, console>>

\* The callback instance i registered on configPromise runs, once the promise
\* is fulfilled; a rejected promise never runs it.
RunThenCallback(i) ==
    /\ i \in DOMAIN instances
    /\ instances[i].thenRegistered
    /\ ~instances[i].callbackRan
    /\ promise.state = "fulfilled"
    /\ instances' = ThenCallback(instances, i, promise.value)
    /\ console' = IF JSONParse(promise.value).ok THEN console
                  ELSE console \cup {"uncaught SyntaxError"}
    /\ UNCHANGED <<module, phase, resource, trace, now, sheets, sheet, displayTextConfig,
                   configPromise, promise, defined, firstInsertAt>>

\* Time passes.
Tick ==
    /\ now < MaxTime
    /\ now' = now + 1
    /\ UNCHANGED <<module, phase, resource, trace, sheets, sheet, displayTextConfig,
                   configPromise, promise, defined, instances, firstInsertAt, console>>

Next ==
    \/ ParseGraph
    \/ \E url \in Urls : \E ok \in BOOLEAN : \E body \in Bodies(url) : ResourceArrive(url, ok, body)
    \/ LinkGraph
    \/ Evaluate
    \/ SettleConfigPromise
    \/ \E c \in AllClasses : Construct(c)
    \/ \E i \in 1..MaxInstances : Insert(i)
    \/ \E i \in 1..MaxInstances : RunThenCallback(i)
    \/ Tick

Spec == Init /\ [][Next]_vars

----------------------------------------------------------------------------
(* Properties *)

CssModulePages == {CssModule1, CssModule2, CssModuleCat, CssModule0}

\* The import declarations the files carry: importer and imported url.
ImportDeclarations ==
    {<<CssModule1, StylesCss>>, <<CssModule2, LinkTestCss>>, <<CssModuleCat, BigStylesCss>>,
     <<CssModule0, StylesCss>>, <<LinkInShadow, DisplayTextJson>>}

InstancesOf(c) == {i \in DOMAIN instances : instances[i].class = c}

RECURSIVE CountTag(_, _)
CountTag(content, tag) ==
    IF content = <<>> THEN 0
    ELSE (IF Head(content).tag = tag THEN 1 ELSE 0) + CountTag(Tail(content), tag)

RECURSIVE TotalTag(_, _)
TotalTag(insts, tag) ==
    IF insts = <<>> THEN 0
    ELSE CountTag(Head(insts).content, tag) + TotalTag(Tail(insts), tag)

\* C1: on a page of CSS module elements the imported stylesheet is processed
\* once, at import: there is never more than one stylesheet object, from the
\* import on there is exactly one whatever the number of instances, and every
\* instance's shadow root adopts that one object.
C1_SingleSheet ==
    module \in CssModulePages =>
        /\ Len(sheets) <= 1
        /\ phase \in {"evaluating", "done"} => Len(sheets) = 1
        /\ \A i \in DOMAIN instances :
              /\ sheet = 1
              /\ sheets[1].origin \in StaticImports(module)
              /\ instances[i].adoptedStyleSheets = <<sheet>>

C1_Witness ==
    /\ module \in CssModulePages
    /\ Len(instances) >= 2
    /\ Len(sheets) = 1
    /\ \A i \in DOMAIN instances : instances[i].adoptedStyleSheets = <<1>>

\* C2: every StyleTestElement / LinkTestElement instance stamps out its own
\* <style> / <link> element: the number of such elements in the shadow trees
\* equals the number of instances constructed.
C2_ElementPerInstance ==
    /\ TotalTag(instances, "link") = Cardinality(InstancesOf("LinkTestElement"))
    /\ TotalTag(instances, "style") = Cardinality(InstancesOf("StyleTestElement"))
    /\ \A i \in InstancesOf("LinkTestElement") : CountTag(instances[i].content, "link") = 1
    /\ \A i \in InstancesOf("StyleTestElement") : CountTag(instances[i].content, "style") = 1

C2_Witness ==
    /\ Cardinality(InstancesOf("LinkTestElement")) >= 1
    /\ Cardinality(InstancesOf("StyleTestElement")) >= 1
    /\ TotalTag(instances, "link") + TotalTag(instances, "style") = Len(instances)

\* C3: in the fetch() version the request for displayText.json is issued only
\* after busyWork.js, which precedes the element module in execution order,
\* has finished executing.
C3_FetchAfterBusyWork ==
    module = Fetcher =>
        \A k \in DOMAIN trace :
            trace[k] = Event("request", DisplayTextJson) =>
                \E j \in 1..(k - 1) : trace[j] = Event("end", BusyWork)

C3_Witness ==
    /\ module = Fetcher
    /\ RequestCount(DisplayTextJson) = 1
    /\ Evaluated(BusyWork)

\* C4: the fetch of every resource imported as a JSON or CSS module starts
\* before the first module body of the graph begins executing.
C4_ImportFetchedBeforeScript ==
    \A d \in ImportDeclarations :
        module = d[1] =>
            \A k \in DOMAIN trace :
                trace[k].ev = "begin" =>
                    \E j \in 1..(k - 1) : trace[j] = Event("request", d[2])

C4_Witness ==
    /\ \E d \in ImportDeclarations : module = d[1] /\ resource[d[2]].status = "loaded"
    /\ Evaluated(BusyWork)
    /\ Evaluated(module)

\* C5: with <link> in the shadow root the stylesheet is not fetched until an
\* instance has been inserted into the document: loading the module, defining
\* the class and constructing instances request nothing, and the stylesheet is
\* first requested at the very time the first instance is inserted.
C5_LinkFetchOnInsert ==
    module \in {LinkModule1, LinkInShadow} =>
        LET u == LinkedStylesheet(module)
            inserted == {i \in InstancesOf("LinkTestElement") : instances[i].inserted}
        IN  /\ inserted = {} => resource[u].status = "unrequested" /\ RequestCount(u) = 0
            /\ resource[u].requestedAt = firstInsertAt["LinkTestElement"]

C5_Witness ==
    /\ module \in {LinkModule1, LinkInShadow}
    /\ Evaluated(module)
    /\ \E i \in InstancesOf("LinkTestElement") : instances[i].inserted
    /\ resource[LinkedStylesheet(module)].requestedAt >= 1

\* C6: if a statically imported JSON or CSS module fails to load, no code of
\* the importing graph runs: no module body executes, no class is defined, no
\* instance is constructed and no module-level value is bound.
C6_FailedImportBlocksGraph ==
    \A d \in ImportDeclarations :
        module = d[1] /\ resource[d[2]].status = "failed" =>
            /\ \A k \in DOMAIN trace : trace[k].ev = "request"
            /\ defined = {}
            /\ instances = <<>>
            /\ sheet = 0 /\ displayTextConfig = EmptyObject /\ configPromise = 0
            /\ phase \in {"fetching", "failed"}

C6_Witness ==
    /\ \E d \in ImportDeclarations : module = d[1] /\ resource[d[2]].status = "failed"
    /\ phase = "failed"

FetchFailed ==
    \/ resource[DisplayTextJson].status = "failed"
    \/ resource[DisplayTextJson].status = "loaded" /\ ~JSONParse(resource[DisplayTextJson].body).ok

\* C7: when the fetch of displayText.json rejects or its body is malformed
\* JSON, FetchTestElement recovers nothing: no further request is made, and
\* every instance keeps the empty text-container, the shadow root, the adopted
\* stylesheet and the skeleton HTML its constructor set.
C7_FailureLeavesInstances ==
    module = Fetcher /\ FetchFailed =>
        /\ RequestCount(DisplayTextJson) = 1
        /\ \A i \in DOMAIN instances :
              LET e == instances[i]
              IN  /\ e.shadow
                  /\ e.local \in DOMAIN sheets
                  /\ sheets[e.local].rules = InlineRules
                  /\ e.adoptedStyleSheets = <<e.local>>
                  /\ e.content = Template(Fetcher, "FetchTestElement", "")
                  /\ e.content[QuerySelector(e.content, "text-container")].text = ""

C7_Witness ==
    /\ module = Fetcher
    /\ promise.state = "fulfilled"
    /\ ~JSONParse(promise.value).ok
    /\ Len(instances) >= 2
    /\ \E i \in DOMAIN instances : instances[i].callbackRan

\* C8: the fetch of displayText.json is issued exactly once per page load, at
\* the evaluation of fetcherElement.js, however many FetchTestElement
\* instances are constructed and whenever they are constructed.
C8_SingleFetch ==
    module = Fetcher =>
        RequestCount(DisplayTextJson) = (IF Evaluated(Fetcher) THEN 1 ELSE 0)

C8_Witness ==
    /\ module = Fetcher
    /\ RequestCount(DisplayTextJson) = 1
    /\ Len(instances) >= 2
    /\ \E i \in DOMAIN instances : instances[i].callbackRan
    /\ \E i \in DOMAIN instances : ~instances[i].callbackRan /\ promise.state = "fulfilled"

\* C9: no state is shared mutably between instances: a step changes at most
\* one existing instance, a construction changes none, no stylesheet object is
\* changed once created, and the module-level bindings (sheet,
\* displayTextConfig, configPromise) are never written once the element module
\* has been evaluated.
C9_Frame ==
    /\ \A i, j \in DOMAIN instances :
          instances'[i] # instances[i] /\ instances'[j] # instances[j] => i = j
    /\ Len(instances') > Len(instances) =>
          \A i \in DOMAIN instances : instances'[i] = instances[i]
    /\ \A k \in DOMAIN sheets : k \in DOMAIN sheets' /\ sheets'[k] = sheets[k]
    /\ Evaluated(module) =>
          /\ sheet' = sheet
          /\ displayTextConfig' = displayTextConfig
          /\ configPromise' = configPromise

C9_NoSharedMutableState == [][C9_Frame]_vars

C9_Witness ==
    /\ module = Fetcher
    /\ Len(instances) >= 2
    /\ \E i, j \in DOMAIN instances :
          /\ instances[i].callbackRan
          /\ instances[i].content[2].text = "Hello"
          /\ ~instances[j].callbackRan
          /\ instances[j].content[2].text = ""

IndexOf(ops, op) ==
    IF \E k \in DOMAIN ops : ops[k] = op THEN CHOOSE k \in DOMAIN ops : ops[k] = op ELSE 0
Times(ops, op) == Cardinality({k \in DOMAIN ops : ops[k] = op})

\* C10 as stated: every constructor performs three steps in order: it attaches
\* the shadow root, then sets or fetches the style content, then assigns HTML.
C10_ThreeStepsInOrder ==
    \A i \in DOMAIN instances :
        LET ops == instances[i].ops
        IN  /\ ops # <<>> /\ ops[1] = "attachShadow"
            /\ Times(ops, "attachShadow") = 1
            /\ \E b, h \in DOMAIN ops :
                  1 < b /\ b < h /\ ops[b] \in {"newSheet", "adopt", "fetch"} /\ ops[h] = "innerHTML"

\* C10 (amended): every constructor attaches the shadow root first, exactly
\* once, and assigns HTML to it exactly once; the CSS module, JSON module and
\* fetch variants adopt a stylesheet between the two, while LinkTestElement and
\* StyleTestElement have no style step of their own: their style content is the
\* <link> / <style> element of the assigned HTML, and the <link>'s stylesheet is
\* requested only once an instance is inserted.  No constructor writes HTML or
\* adopts a stylesheet before the shadow root is attached.
C10_AttachThenStyleThenHtml ==
    \A i \in DOMAIN instances :
        LET e == instances[i]
            ops == e.ops
            h == IndexOf(ops, "innerHTML")
        IN  /\ ~e.threw
            /\ ops # <<>> /\ ops[1] = "attachShadow"
            /\ Times(ops, "attachShadow") = 1
            /\ Times(ops, "innerHTML") = 1
            /\ \A k \in DOMAIN ops : ops[k] = "adopt" => 1 < k /\ k < h
            /\ IF e.class \in {"LinkTestElement", "StyleTestElement"}
               THEN /\ Times(ops, "adopt") = 0
                    /\ CountTag(e.content, "link") + CountTag(e.content, "style") = 1
                    /\ RequestCount(LinkedStylesheet(module)) =
                          Cardinality({j \in InstancesOf("LinkTestElement") : instances[j].inserted})
               ELSE /\ Times(ops, "adopt") = 1
                    /\ Len(e.adoptedStyleSheets) = 1

C10_Witness ==
    /\ module = LinkInShadow
    /\ InstancesOf("LinkTestElement") # {}
    /\ InstancesOf("JSONModuleTestElement") # {}
    /\ \E i \in InstancesOf("LinkTestElement") : instances[i].inserted

\* C11 as stated: once its constructor has returned, the rendered content of
\* an instance never changes again.
C11_ContentNeverChanges ==
    [][\A i \in DOMAIN instances : instances'[i].content = instances[i].content]_vars

C11_Step ==
    \A i \in DOMAIN instances :
        LET e == instances[i]
            k == QuerySelector(e.content, "text-container")
            p == JSONParse(promise.value)
        IN  /\ Times(e.ops, "innerHTML") = 1
            /\ instances'[i].content # e.content =>
                  /\ e.class = "FetchTestElement"
                  /\ ~e.callbackRan /\ instances'[i].callbackRan
                  /\ promise.state = "fulfilled" /\ p.ok
                  /\ instances'[i].content =
                        [e.content EXCEPT ![k].text = Prop(p.obj, "displayText")]

\* C11 (amended): the shadow root's HTML is assigned once, by the constructor,
\* and the rendered content of an instance never changes after the constructor
\* has returned, with one exception: a FetchTestElement's callback on
\* configPromise runs once, after the constructor, and when the fetched text
\* parses it sets the text of the instance's text-container to the displayText
\* of the JSON, verbatim; after that the content never changes again.
C11_ContentChangesOnlyInFetchCallback == [][C11_Step]_vars

C11_Witness ==
    /\ module = Fetcher
    /\ promise.value = ValidJson
    /\ \E i \in DOMAIN instances :
          /\ instances[i].inserted
          /\ instances[i].callbackRan
          /\ instances[i].content =
                [Template(Fetcher, "FetchTestElement", "") EXCEPT ![2].text = "Hello"]

====
